---- MODULE Spec2Model ----
(***************************************************************************)
(* Model of the geographic helpers of src/06-navigator-geolocation.js:     *)
(* calculateDistance (Haversine), findNearestStore and                     *)
(* findNearbyRestaurants.                                                  *)
(*                                                                         *)
(* Numbers.  JavaScript numbers are IEEE-754 doubles; TLC has 32-bit       *)
(* integers.  A number x is modelled by the integer round(x * Scale),      *)
(* every arithmetic operation rounds its exact result to the nearest       *)
(* representable value (ties away from zero, so that rounding commutes     *)
(* with negation as it does in IEEE-754), and NaN is a value of its own    *)
(* that every comparison answers FALSE for.  Products are formed in        *)
(* three-digit limbs so that no intermediate exceeds 2^31.  Distances are  *)
(* returned in thousandths of a kilometre (DistScale).                     *)
(***************************************************************************)
EXTENDS Integers, Sequences, FiniteSets, TLC

Scale == 1000 * 1000
Limb == 10 * 10 * 10
DistScale == 10 * 10 * 10

\* The IEEE-754 not-a-number: an integer no computation of the model reaches
\* (TLC compares integers with integers only).
NaN == 0 - 2000 * Scale

IsNaN(x) == x = NaN

AbsV(x) == IF x < 0 THEN -x ELSE x
Sgn(x) == IF x < 0 THEN -1 ELSE 1

\* round(n / d) for d > 0, ties away from zero
RoundDiv(n, d) == Sgn(n) * ((AbsV(n) + d \div 2) \div d)

\* x * y on scaled numbers: round(x * y / Scale)
MulAbs(x, y) ==
    LET xh == x \div Limb
        xl == x % Limb
        yh == y \div Limb
        yl == y % Limb
        mid == xh * yl + xl * yh + (xl * yl) \div Limb
    IN  xh * yh + (mid + Limb \div 2) \div Limb

Mul(x, y) == Sgn(x) * Sgn(y) * MulAbs(AbsV(x), AbsV(y))

\* x / y on scaled numbers, 0 <= x, 0 < y, x / y <= 2: round(x * Scale / y)
DivAbs(x, y) ==
    LET q1 == (x * Limb) \div y
        r1 == (x * Limb) % y
        q2 == (r1 * Limb) \div y
        r2 == (r1 * Limb) % y
    IN  q1 * Limb + q2 + (IF 2 * r2 >= y THEN 1 ELSE 0)

\* Math.PI
PI == 3141593
HalfPi == PI \div 2
QuarterPi == PI \div 4

\* sin and cos on [0, pi/4] by their Taylor polynomials (Horner form, z = x * x),
\* as the kernels of a libm do after argument reduction
SinPoly(x, z) ==
    Mul(x, Scale - Mul(z, 166667 - Mul(z, 8333 - Mul(z, 198 - Mul(z, 3)))))

SinK(x) == SinPoly(x, Mul(x, x))

CosPoly(z) ==
    Scale - Mul(z, 500000 - Mul(z, 41667 - Mul(z, 1389 - Mul(z, 25))))

CosK(x) == CosPoly(Mul(x, x))

Kernel(useCos, x) == IF useCos THEN CosK(x) ELSE SinK(x)

Signed(negative, v) == IF negative THEN -v ELSE v

\* sin(n * pi/2 + r) for a quadrant n in 0..3 and r in [0, pi/2): the quadrant
\* chooses the kernel and the sign, and r above pi/4 is folded to pi/2 - r
TrigQ(n, r) ==
    Signed(n >= 2,
           Kernel((n % 2 = 1) # (r > QuarterPi),
                  IF r > QuarterPi THEN HalfPi - r ELSE r))

\* Math.sin: odd, reduced by quadrants
SinPos(x) == TrigQ((x \div HalfPi) % 4, x % HalfPi)

Sin(x) == Signed(x < 0, SinPos(AbsV(x)))

\* Math.cos: even, cos(x) = sin(x + pi/2)
CosPos(x) == TrigQ((x \div HalfPi + 1) % 4, x % HalfPi)

Cos(x) == CosPos(AbsV(x))

\* Newton's iteration for the square root, from above: n is the next iterate
RECURSIVE SqrtIter(_, _, _)
SqrtIter(x, r, n) ==
    IF n >= r THEN r ELSE SqrtIter(x, n, (n + DivAbs(x, n) + 1) \div 2)

\* Math.sqrt: NaN for a negative argument
Sqrt(x) ==
    IF IsNaN(x) THEN NaN
    ELSE IF x < 0 THEN NaN
    ELSE IF x = 0 THEN 0
    ELSE SqrtIter(x, 2 * Scale, Scale + (x + 2) \div 4)

\* atan on [-tan(pi/8), tan(pi/8)] by its Taylor polynomial (z = u * u)
AtanPoly(u, z) ==
    Mul(u, Scale - Mul(z, 333333 - Mul(z, 200000 - Mul(z, 142857
        - Mul(z, 111111 - Mul(z, 90909 - Mul(z, 76923 - Mul(z, 66667))))))))

AtanS(u) == AtanPoly(u, Mul(u, u))

FromAngle(folded, angle, v) == IF folded THEN angle - v ELSE v

\* atan on [0, 1]: atan(t) = pi/4 - atan((1 - t) / (1 + t)) above tan(pi/8)
AtanK(t) ==
    FromAngle(t > 414214, QuarterPi,
              AtanS(IF t > 414214 THEN DivAbs(Scale - t, Scale + t) ELSE t))

\* Math.atan2(y, x) for the arguments calculateDistance passes it: two square
\* roots, so each is NaN or >= 0; atan(y / x) = pi/2 - atan(x / y) above 1
Atan2(y, x) ==
    IF IsNaN(y) \/ IsNaN(x) THEN NaN
    ELSE IF y = 0 THEN 0
    ELSE FromAngle(y > x, HalfPi,
                   AtanK(IF y > x THEN DivAbs(x, y) ELSE DivAbs(y, x)))

\* x * Math.PI / 180
Radians(deg) == RoundDiv(Mul(deg, PI), 180)

\* R * c, in thousandths of a kilometre
TimesR(R, c) ==
    IF IsNaN(c) THEN NaN
    ELSE R * (c \div Limb) + RoundDiv(R * (c % Limb), Scale \div DistScale)

\* a sum that leaves out the longitude factors: not what the source computes
HaversineSumNoLon(sLat, sLon, c1, c2) ==
    Mul(sLat, sLat) + Mul(c1, c2)

\* sLat * sLat + c1 * c2 * sLon * sLon, multiplied left to right
HaversineSum(sLat, sLon, c1, c2) ==
    Mul(sLat, sLat) + Mul(Mul(Mul(c1, c2), sLon), sLon)

\* t, not doubled: not what the source computes
NotTwice(t) == t

\* 2 * t
Twice(t) == IF IsNaN(t) THEN NaN ELSE 2 * t

\* 2 * Math.atan2(Math.sqrt(a), Math.sqrt(1 - a))
CentralAngle(a) == Twice(Atan2(Sqrt(a), Sqrt(Scale - a)))

\* function calculateDistance(lat1, lon1, lat2, lon2)
calculateDistance(lat1, lon1, lat2, lon2) ==
    LET R == 6371
        dLat == Radians(lat2 - lat1)
        dLon == Radians(lon2 - lon1)
        a == HaversineSum(Sin(RoundDiv(dLat, 2)), Sin(RoundDiv(dLon, 2)),
                          Cos(Radians(lat1)), Cos(Radians(lat2)))
        c == CentralAngle(a)
        distance == TimesR(R, c)
    IN  distance

----------------------------------------------------------------------------
(* JavaScript semantics the two searches rest on                           *)

\* x - y on numbers: NaN if either is
Sub(x, y) == IF IsNaN(x) \/ IsNaN(y) THEN NaN ELSE x - y

\* x <= y on numbers: false if either is NaN
Leq(x, y) == ~IsNaN(x) /\ ~IsNaN(y) /\ x <= y

\* x === y on numbers: false if either is NaN
NumEq(x, y) == ~IsNaN(x) /\ ~IsNaN(y) /\ x = y

\* ToNumber(r.rating): a record without the property yields undefined, NaN
RatingNum(r) == IF "rating" \in DOMAIN r THEN r.rating ELSE NaN

\* { name: r.name, lat: r.lat, lon: r.lon, distance: d }, which leaves the
\* rating behind: not what the source builds
WithDistanceOnly(r, d) == [distance |-> d, name |-> r.name, lat |-> r.lat, lon |-> r.lon]

\* { ...r, distance: d }
WithDistance(r, d) == [distance |-> d] @@ r

\* a comparator that puts the later of two equally distant records first: not
\* the source's
ByDistanceLaterFirst(a, b) ==
    IF Sub(a.distance, b.distance) = 0 THEN 1 ELSE Sub(a.distance, b.distance)

\* (a, b) => a.distance - b.distance
ByDistance(a, b) == Sub(a.distance, b.distance)

\* (a, b) => b.rating - a.rating
ByRating(a, b) == Sub(RatingNum(b), RatingNum(a))

\* the comparator a call of sort is given, named by the property it compares
comparefn(by, a, b) == IF by = "distance" THEN ByDistance(a, b) ELSE ByRating(a, b)

\* Array.prototype.sort's SortCompare: a comparator result of NaN counts as +0
SortCompare(v) == IF IsNaN(v) THEN 0 ELSE v

\* Array.prototype.sort on a short array: a stable insertion sort driven by the
\* comparator alone (what the engines run on arrays of this length)
InsertAt(s, x, j) == SubSeq(s, 1, j) \o <<x>> \o SubSeq(s, j + 1, Len(s))

\* where x goes in the sorted prefix: after the last element that does not
\* compare greater than it
InsertPos(done, x, by) ==
    LET pos[j \in 0..Len(done)] ==
            IF j >= 1 /\ SortCompare(comparefn(by, done[j], x)) > 0 THEN pos[j - 1] ELSE j
    IN  pos[Len(done)]

sort(s, by) ==
    LET Insert(done, x) == InsertAt(done, x, InsertPos(done, x, by))
        prefix[n \in 0..Len(s)] ==
            IF n = 0 THEN <<>> ELSE Insert(prefix[n - 1], s[n])
    IN  prefix[Len(s)]

\* the outcome of a call: what it returned, threw, or (an async function) the
\* settled promise it returned
Returned(v) == [kind |-> "return", error |-> "", value |-> v]
Thrown(e) == [kind |-> "throw", error |-> e, value |-> 0]
Fulfilled(v) == [kind |-> "fulfilled", error |-> "", value |-> v]
NoCall == [kind |-> "none", error |-> "", value |-> 0]

----------------------------------------------------------------------------
(* The two searches.  The source builds its candidate array from a literal *)
(* inside the function; the array is a parameter here, so that the body    *)
(* can be run on other arrays than the literal one.                        *)

\* stores.map(store => ({ ...store, distance: calculateDistance(...) }))
MapDistance(userLat, userLon, places) ==
    LET mapped[n \in 0..Len(places)] ==
            IF n = 0 THEN <<>>
            ELSE Append(mapped[n - 1],
                        WithDistance(places[n],
                                     calculateDistance(userLat, userLon,
                                                       places[n].lat, places[n].lon)))
    IN  mapped[Len(places)]

\* function findNearestStore(userLat, userLon): sort()[0] of an empty array is
\* undefined, and nearest.name then throws a TypeError
findNearestStore(userLat, userLon, stores) ==
    LET storesWithDistance == MapDistance(userLat, userLon, stores)
        sorted == sort(storesWithDistance, "distance")
    IN  IF Len(sorted) = 0 THEN Thrown("TypeError") ELSE Returned(sorted[1])

\* r.distance < radius, an exclusive boundary: not the source's
InRadiusExclusive(r, rad) == ~IsNaN(r.distance) /\ ~IsNaN(rad) /\ r.distance < rad

\* r => r.distance <= radius
InRadius(r, rad) == Leq(r.distance, rad)

\* async function findNearbyRestaurants(userLat, userLon, radius = 5)
findNearbyRestaurants(userLat, userLon, radius, restaurants) ==
    LET mapped == MapDistance(userLat, userLon, restaurants)
        filtered == SelectSeq(mapped, LAMBDA r : InRadius(r, radius))
        nearby == sort(filtered, "rating")
    IN  Fulfilled(nearby)

----------------------------------------------------------------------------
(* The arrays of a call, by the name the source gives them: which array    *)
(* each array method writes                                                *)

\* a map that also stores each distance in the record it read, as a loop
\* assigning store.distance would: not what the source does
ArrayMapAssign(arrays, from, to, userLat, userLon) ==
    [arrays EXCEPT ![to] = MapDistance(userLat, userLon, arrays[from]),
                   ![from] = MapDistance(userLat, userLon, arrays[from])]

\* to = from.map(r => ({ ...r, distance })): a new array of new objects; from
\* and its records stay as they are
ArrayMap(arrays, from, to, userLat, userLon) ==
    [arrays EXCEPT ![to] = MapDistance(userLat, userLon, arrays[from])]

\* to = from.filter(r => r.distance <= radius): a new array
ArrayFilter(arrays, from, to, rad) ==
    [arrays EXCEPT ![to] = SelectSeq(arrays[from], LAMBDA r : InRadius(r, rad))]

\* receiver.sort(comparefn): sorts the receiver itself
ArraySort(arrays, receiver, by) ==
    [arrays EXCEPT ![receiver] = sort(arrays[receiver], by)]

\* the arrays of findNearestStore when sort has run
NearestArrays(userLat, userLon, stores) ==
    ArraySort(ArrayMap([stores |-> stores, storesWithDistance |-> <<>>],
                       "stores", "storesWithDistance", userLat, userLon),
              "storesWithDistance", "distance")

\* the arrays of findNearbyRestaurants when sort has run: the array map
\* returns, and the array filter returns, which sort sorts and nearby names
NearbyArrays(userLat, userLon, rad, restaurants) ==
    ArraySort(ArrayFilter(ArrayMap([restaurants |-> restaurants, mapped |-> <<>>,
                                    nearby |-> <<>>],
                                   "restaurants", "mapped", userLat, userLon),
                          "mapped", "nearby", rad),
              "nearby", "rating")

----------------------------------------------------------------------------
(* What a call writes to the console                                       *)

\* distance.toFixed(2): hundredths of a kilometre, NaN for NaN
toFixed2(d) == IF IsNaN(d) THEN NaN ELSE RoundDiv(d, DistScale \div 100)

\* console.log('Nearest store:', nearest.name) and console.log('Distance:',
\* nearest.distance.toFixed(2), 'km'); nearest.name throws before anything is
\* written when nearest is undefined
NearestLog(outcome) ==
    IF outcome.kind = "throw" THEN <<>>
    ELSE << <<"Nearest store:", outcome.value.name>>,
            <<"Distance:", toFixed2(outcome.value.distance), "km">> >>

\* nearby.forEach(r => console.log(`- ${r.name}: ${r.distance.toFixed(2)}km,
\* ${r.rating}`))
ForEachLog(nearby) ==
    LET lines[n \in 0..Len(nearby)] ==
            IF n = 0 THEN <<>>
            ELSE Append(lines[n - 1],
                        <<"-", nearby[n].name, toFixed2(nearby[n].distance),
                          IF "rating" \in DOMAIN nearby[n] THEN nearby[n].rating
                          ELSE "undefined">>)
    IN  lines[Len(nearby)]

\* console.log(`Finding restaurants within ${radius}km...`),
\* console.log('Found', nearby.length, 'nearby restaurants:') and the lines of
\* forEach
NearbyLog(rad, outcome) ==
    << <<"Finding restaurants within", rad>>,
       <<"Found", Len(outcome.value), "nearby restaurants:">> >>
    \o ForEachLog(outcome.value)

----------------------------------------------------------------------------
(* State: the arguments of a call and its outcome                          *)

VARIABLES origin, target, candidates, radius, op, ret, logged, tasks, frames,
          localStorage, history, call,
          document, observing, entries, page, loading, timers, loaded,
          tracked, views, intersected, fetched, unloaded,
          geolocation, timeouts, cleared

vars == <<origin, target, candidates, radius, op, ret, logged, tasks, frames,
          localStorage, history, call,
          document, observing, entries, page, loading, timers, loaded,
          tracked, views, intersected, fetched, unloaded,
          geolocation, timeouts, cleared>>

\* the storage of src/03-local-storage.js, which the geographic helpers do not
\* touch
storageVars == <<localStorage, history, call>>

NoStorage ==
    /\ localStorage = <<>>
    /\ history = <<>>
    /\ call = <<>>

\* the page of src/05-intersection-observer.js, which neither the geographic
\* helpers nor the storage helpers touch: its elements, the targets of its
\* observers, the argument of the callback that ran last, whether
\* 'beforeunload' has fired, and (not the program's) the elements with an
\* id an intersecting entry has arrived for
domVars == <<document, observing, entries, unloaded, intersected>>

\* setupInfiniteScroll: let page, let loading, the timeouts set and not yet
\* run, the pages loadMoreItems was called with
scrollVars == <<page, loading, timers, loaded>>

\* setupViewTracking: const tracked, the ids trackView was called with
trackingVars == <<tracked, views>>

\* setupLazyLoading: the sources assigned to img.src
lazyVars == <<fetched>>

pageVars == <<domVars, scrollVars, trackingVars, lazyVars>>

\* startLocationTracking: navigator.geolocation, the timeouts set and not yet
\* run, the ids clearWatch was called with
watchVars == <<geolocation, timeouts, cleared>>

NoScroll ==
    /\ page = 1
    /\ loading = FALSE
    /\ timers = 0
    /\ loaded = <<>>

NoTracking ==
    /\ tracked = {}
    /\ views = <<>>

NoLazy == fetched = <<>>

NoWatch ==
    /\ geolocation = <<>>
    /\ timeouts = {}
    /\ cleared = <<>>

NoPage ==
    /\ document = <<>>
    /\ observing = <<>>
    /\ entries = <<>>
    /\ unloaded = FALSE
    /\ intersected = {}
    /\ NoScroll
    /\ NoTracking
    /\ NoLazy
    /\ NoWatch

Point(la, lo) == [lat |-> la, lon |-> lo]

\* const mumbai, const delhi
mumbai == Point(19076000, 72877700)
delhi == Point(28704100, 77102500)

\* a point and its antipode
north12 == Point(12 * Scale, 0)
south12 == Point((0 - 12) * Scale, 180 * Scale)

Origins == {mumbai, north12}

\* Points of interest: the source's first store / restaurant, two records at
\* one location with one rating, a record without a rating, and a record
\* antipodal to an origin.  (The source's other literals lie within 16 km of
\* the first, below what Scale resolves.)
PlaceA == [name |-> "Restaurant A", lat |-> 19076000, lon |-> 72877700, rating |-> 4500000]
PlaceD1 == [name |-> "Delhi 1", lat |-> 28704100, lon |-> 77102500, rating |-> 4200000]
PlaceD2 == [name |-> "Delhi 2", lat |-> 28704100, lon |-> 77102500, rating |-> 4200000]
PlaceU == [name |-> "Unrated", lat |-> north12.lat, lon |-> north12.lon]
PlaceS == [name |-> "South", lat |-> south12.lat, lon |-> south12.lon, rating |-> 4800000]

Places == {PlaceA, PlaceD1, PlaceD2, PlaceU, PlaceS}

MaxCand == 3

SeqsUpTo(S, n) == UNION {[1..k -> S] : k \in 0..n}

\* radii in kilometres: negative, zero, the default 5, exactly the distance
\* from mumbai to delhi, and more than half the globe
Radii ==
    {(0 - 1) * DistScale, 0, 5 * DistScale,
     calculateDistance(mumbai.lat, mumbai.lon, delhi.lat, delhi.lon),
     25000 * DistScale}

Init ==
    /\ origin \in Origins
    /\ target = origin
    /\ candidates \in SeqsUpTo(Places, MaxCand)
    /\ radius \in Radii
    /\ op = "none"
    /\ ret = NoCall
    /\ NoStorage
    /\ NoPage
    /\ logged = <<>>
    /\ tasks = <<>>
    /\ frames = <<>>

CallNearest ==
    /\ op' = "findNearestStore"
    /\ ret' = findNearestStore(origin.lat, origin.lon, candidates)
    /\ candidates' = NearestArrays(origin.lat, origin.lon, candidates).stores
    /\ logged' = NearestLog(ret')
    /\ UNCHANGED <<origin, target, radius, tasks, frames, storageVars, pageVars, watchVars>>

CallWithin ==
    /\ op' = "findNearbyRestaurants"
    /\ ret' = findNearbyRestaurants(origin.lat, origin.lon, radius, candidates)
    /\ candidates' = NearbyArrays(origin.lat, origin.lon, radius, candidates).restaurants
    /\ logged' = NearbyLog(radius, ret')
    /\ UNCHANGED <<origin, target, radius, tasks, frames, storageVars, pageVars, watchVars>>

Next == CallNearest \/ CallWithin

Spec == Init /\ [][Next]_vars

\* calculateDistance alone, on a grid of points that has the poles, the
\* equator, the date line, mumbai, delhi and antipodal pairs
GridLat == {(0 - 90) * Scale, (0 - 12) * Scale, 0, 12 * Scale, 19076000, 28704100, 90 * Scale}
GridLon == {(0 - 180) * Scale, 0, 72877700, 77102500, 180 * Scale}
Grid == {Point(la, lo) : la \in GridLat, lo \in GridLon}

InitDistance ==
    /\ origin \in Grid
    /\ target \in Grid
    /\ candidates = <<>>
    /\ radius = 0
    /\ op = "none"
    /\ ret = NoCall
    /\ NoStorage
    /\ NoPage
    /\ logged = <<>>
    /\ tasks = <<>>
    /\ frames = <<>>

CallDistance ==
    /\ op' = "calculateDistance"
    /\ ret' = Returned(calculateDistance(origin.lat, origin.lon, target.lat, target.lon))
    /\ logged' = <<>>
    /\ UNCHANGED <<origin, target, candidates, radius, tasks, frames, storageVars, pageVars, watchVars>>

NextDistance == CallDistance

SpecDistance == InitDistance /\ [][NextDistance]_vars

----------------------------------------------------------------------------
(* Properties of findNearestStore                                          *)

\* the candidates with the distance the searches compute for each
Measured == MapDistance(origin.lat, origin.lon, candidates)

\* record i of m is at least as near as every other record of m
IsMinimal(m, i) == \A j \in (1..Len(m)) \ {i} : Leq(m[i].distance, m[j].distance)

\* some record of m is at least as near as every other, and the call returned it
ReturnsMinimal(m) ==
    /\ ret.kind = "return"
    /\ \E i \in 1..Len(m) : ret.value = m[i] /\ IsMinimal(m, i)

\* C1: nearest, on any origin and any non-empty candidate sequence, returns a
\* candidate whose distance from the origin is less than or equal to the
\* distance of every other candidate.
NearestIsMinimal ==
    (op = "findNearestStore" /\ Len(candidates) > 0) => ReturnsMinimal(Measured)

IsFirstOfTie(m, i) ==
    /\ \E k \in 1..Len(m) : k # i /\ NumEq(m[k].distance, m[i].distance)
    /\ \A k \in 1..(i - 1) : ~NumEq(m[k].distance, m[i].distance)

EarliestOfTieWins(m) ==
    \A i \in 1..Len(m) :
        (IsMinimal(m, i) /\ IsFirstOfTie(m, i)) => ret = Returned(m[i])

\* C3: when two or more candidates share the minimal distance from the
\* origin, nearest returns the one that is earliest in the input sequence.
NearestTieBreak == op = "findNearestStore" => EarliestOfTieWins(Measured)

\* a far record first, then two records of one location: the earlier of the
\* two is returned
NearestTieBreakWitness ==
    /\ op = "findNearestStore"
    /\ origin = mumbai
    /\ candidates = <<PlaceU, PlaceD2, PlaceD1>>
    /\ IsMinimal(Measured, 2) /\ IsFirstOfTie(Measured, 2)
    /\ ret.kind = "return" /\ ret.value.name = "Delhi 2"

----------------------------------------------------------------------------
(* Properties of findNearbyRestaurants                                     *)

Occurrences(s, r) == Cardinality({k \in 1..Len(s) : s[k] = r})

\* the result holds the records of m whose distance is <= radius, each as
\* often as m does, and nothing else
HoldsExactlyInRadius(m) ==
    /\ \A i \in 1..Len(m) :
          Occurrences(ret.value, m[i]) =
              IF Leq(m[i].distance, radius) THEN Occurrences(m, m[i]) ELSE 0
    /\ \A k \in 1..Len(ret.value) : Occurrences(m, ret.value[k]) > 0

\* C4: a candidate is in the result of within if and only if its distance
\* from the origin is <= the radius: candidates beyond the radius are
\* excluded, candidates exactly at the radius are included.
WithinFilter ==
    op = "findNearbyRestaurants" =>
        ret.kind = "fulfilled" /\ HoldsExactlyInRadius(Measured)

\* the radius is exactly the distance from mumbai to delhi: the record at
\* delhi is in the result, the farther record is not
WithinFilterWitness ==
    /\ op = "findNearbyRestaurants"
    /\ origin = mumbai
    /\ candidates = <<PlaceU, PlaceD1>>
    /\ radius = calculateDistance(mumbai.lat, mumbai.lon, delhi.lat, delhi.lon)
    /\ Measured[1].distance > radius
    /\ ret = Fulfilled(<<WithDistance(PlaceD1, radius)>>)

\* the rating a record is ranked by: a record without one ranks below all
Rated(r) == "rating" \in DOMAIN r
Rank(r) == IF Rated(r) THEN r.rating ELSE 0 - 1

RankDescending(s) == \A k \in 1..(Len(s) - 1) : Rank(s[k]) >= Rank(s[k + 1])

OfRank(s, v) == SelectSeq(s, LAMBDA r : Rank(r) = v)

\* records of one rating are in s in the order they have in input
KeepsOrderOfEquals(s, input) ==
    \A k \in 1..Len(input) : OfRank(s, Rank(input[k])) = OfRank(input, Rank(input[k]))

\* the candidates in the radius, in input order
Kept == SelectSeq(Measured, LAMBDA r : InRadius(r, radius))

WithinNegativeRadiusFails ==
    (op = "findNearbyRestaurants" /\ radius < 0) =>
        ret.kind # "fulfilled" /\ ret.error = "InvalidArgumentError"

UnratedLast(s) ==
    \A k \in 1..Len(s) : \A l \in (k + 1)..Len(s) : Rated(s[l]) => Rated(s[k])

----------------------------------------------------------------------------
(* Properties of calculateDistance                                         *)

\* C8: for every point A with in-range coordinates, the distance from A to
\* A is 0.
DistanceIdentity ==
    (op = "calculateDistance" /\ origin = target) => ret = Returned(0)

\* the distance from mumbai to mumbai has been computed, and is 0
DistanceIdentityWitness ==
    /\ op = "calculateDistance"
    /\ origin = mumbai
    /\ target = mumbai
    /\ ret.kind = "return" /\ ret.value = 0

\* x and y are numbers equal within 1e-9 relative tolerance.  Distances are
\* whole thousandths of a kilometre below 2.1e7, so two that differ differ by
\* more than 1e-9 of either.
WithinTolerance(x, y) == NumEq(x, y)

\* C9: for all points A and B, the distance from A to B equals the distance
\* from B to A within 1e-9 relative tolerance.
DistanceSymmetric ==
    op = "calculateDistance" =>
        WithinTolerance(ret.value,
                        calculateDistance(target.lat, target.lon, origin.lat, origin.lon))

\* h = sin^2(dLat / 2) + cos(lat_a) * cos(lat_b) * sin^2(dLon / 2)
HaversineH(a, b) ==
    LET sLat == Sin(RoundDiv(Radians(b.lat - a.lat), 2))
        sLon == Sin(RoundDiv(Radians(b.lon - a.lon), 2))
    IN  Mul(sLat, sLat) + Mul(Mul(Mul(Cos(Radians(a.lat)), Cos(Radians(b.lat))), sLon), sLon)

\* 2 * 6371 * atan2(sqrt(h), sqrt(1 - h)) for the h of the formula, which no
\* pair of points takes above 1
HaversineOf(h) ==
    TimesR(6371, 2 * Atan2(Sqrt(h), Sqrt(IF h > Scale THEN 0 ELSE Scale - h)))

\* C10: for all in-range inputs the distance equals
\* 2 * 6371 * atan2(sqrt(h), sqrt(1 - h)), the Haversine formula with Earth
\* radius 6371 km, dLat and dLon being the coordinate differences in radians.
DistanceIsHaversine ==
    op = "calculateDistance" =>
        ret.kind = "return" /\ NumEq(ret.value, HaversineOf(HaversineH(origin, target)))

\* C11: for every pair of points with latitudes in [-90, 90] and longitudes
\* in [-180, 180], the distance is a non-negative real number.
DistanceNonNegativeReal ==
    op = "calculateDistance" =>
        ret.kind = "return" /\ ~IsNaN(ret.value) /\ ret.value >= 0

\* C12: the distance from mumbai (19.0760, 72.8777) to delhi
\* (28.7041, 77.1025) is between 1150 km and 1170 km.
MumbaiDelhiFixture ==
    (op = "calculateDistance" /\ origin = mumbai /\ target = delhi) =>
        /\ ret.kind = "return"
        /\ Leq(1150 * DistScale, ret.value)
        /\ Leq(ret.value, 1170 * DistScale)

\* the call of line 241 has been made and its result is in the interval
MumbaiDelhiFixtureWitness ==
    /\ op = "calculateDistance"
    /\ origin = mumbai
    /\ target = delhi
    /\ ret.kind = "return"
    /\ ret.value > 1150 * DistScale /\ ret.value < 1170 * DistScale

----------------------------------------------------------------------------
(* calculateDistance on coordinates outside the geographic ranges          *)

InRange(p) ==
    /\ (0 - 90) * Scale <= p.lat /\ p.lat <= 90 * Scale
    /\ (0 - 180) * Scale <= p.lon /\ p.lon <= 180 * Scale

\* latitudes beyond the poles and longitudes beyond the date line, with
\* in-range ones to pair them with
WideLat == {(0 - 12) * Scale, 12 * Scale, 100 * Scale, 168 * Scale}
WideLon == {(0 - 190) * Scale, 0, 180 * Scale, 360 * Scale}
WideGrid == {Point(la, lo) : la \in WideLat, lo \in WideLon}

InitOutOfRange ==
    /\ origin \in WideGrid
    /\ target \in WideGrid
    /\ ~(InRange(origin) /\ InRange(target))
    /\ candidates = <<>>
    /\ radius = 0
    /\ op = "none"
    /\ ret = NoCall
    /\ NoStorage
    /\ NoPage
    /\ logged = <<>>
    /\ tasks = <<>>
    /\ frames = <<>>

SpecOutOfRange == InitOutOfRange /\ [][NextDistance]_vars

\* C13: with a latitude outside [-90, 90] or a longitude outside [-180, 180]
\* the distance does not fail: no error is raised and the result is a
\* defined number.
OutOfRangeDefined ==
    (op = "calculateDistance" /\ ~(InRange(origin) /\ InRange(target))) =>
        ret.kind = "return" /\ ~IsNaN(ret.value)

----------------------------------------------------------------------------
(* Properties of the two searches as calls: what they leave behind         *)

\* C14: nearest and within never mutate the caller's records or the
\* candidate sequence: after any call every input record has the fields and
\* values it had and the sequence has the order it had.
InputsNotMutated == [][candidates' = candidates]_vars

\* within has sorted its own array into another order than the input's, and
\* the input is as it was
InputsNotMutatedWitness ==
    /\ op = "findNearbyRestaurants"
    /\ origin = mumbai
    /\ radius = 25000 * DistScale
    /\ candidates = <<PlaceA, PlaceS>>
    /\ ret.kind = "fulfilled"
    /\ Len(ret.value) = 2
    /\ ret.value[1].name = "South" /\ ret.value[2].name = "Restaurant A"

\* what the call just made returns on its inputs, whatever was called before
OutcomeOfInputs ==
    IF op = "findNearestStore"
    THEN findNearestStore(origin.lat, origin.lon, candidates)
    ELSE findNearbyRestaurants(origin.lat, origin.lon, radius, candidates)

\* C15: every operation is a pure function of its inputs: equal inputs give
\* equal results whatever was invoked before, and an invocation changes no
\* state observable outside it.
OperationsPure ==
    op \in {"findNearestStore", "findNearbyRestaurants"} =>
        ret = OutcomeOfInputs /\ Len(logged) = 0

\* res has every field of the candidate c with c's value, and beyond them
\* only the distance from the origin to c
IsRankedResultOf(res, c) ==
    /\ DOMAIN res = DOMAIN c \cup {"distance"}
    /\ \A f \in DOMAIN c : res[f] = c[f]
    /\ res.distance = calculateDistance(origin.lat, origin.lon, c.lat, c.lon)

\* the results are ranked results of candidates, each of another position of
\* the candidate sequence
FromDistinctCandidates(results) ==
    \E from \in [1..Len(results) -> 1..Len(candidates)] :
        /\ \A k \in 1..Len(results) : IsRankedResultOf(results[k], candidates[from[k]])
        /\ \A k \in 1..Len(results) : \A l \in 1..Len(results) :
              from[k] = from[l] => k = l

\* the results a call delivered, as a sequence
Results ==
    IF ret.kind = "fulfilled" THEN ret.value
    ELSE IF ret.kind = "return" THEN <<ret.value>> ELSE <<>>

\* C16: each result of nearest or within carries the fields of its candidate
\* unchanged plus a distance equal to distance(origin, candidate); no result
\* is of a record that is not a candidate, and no candidate appears twice.
ResultsAreRankedCandidates ==
    op \in {"findNearestStore", "findNearbyRestaurants"} =>
        FromDistinctCandidates(Results)

\* two results, of a rated and of an unrated candidate, each with the
\* candidate's fields and its distance
ResultsAreRankedCandidatesWitness ==
    /\ op = "findNearbyRestaurants"
    /\ candidates = <<PlaceU, PlaceD1>>
    /\ ret.kind = "fulfilled"
    /\ Len(ret.value) = 2
    /\ IsRankedResultOf(ret.value[1], PlaceU)
    /\ IsRankedResultOf(ret.value[2], PlaceD1)
    /\ ret.value[2].rating = PlaceD1.rating

\* C17: the output of nearest and within is returned synchronously: the
\* result value is the caller's when the call returns, without waiting for a
\* later task or callback.
ReturnedSynchronously ==
    op \in {"findNearestStore", "findNearbyRestaurants"} =>
        ret.kind \in {"return", "throw"}

----------------------------------------------------------------------------
(* Calls in flight together.  Each call runs statement by statement (map   *)
(* element by element) and the statements of different calls interleave    *)
(* in every order: more orders than a JavaScript engine, which runs each   *)
(* of these bodies to completion, would produce.  tasks[i] is call i, its  *)
(* arguments, the statement it is at and its outcome; frames[n] holds the  *)
(* arrays and numbers declared by the call whose frame n is; logged is the *)
(* console, which all calls write.                                         *)

TaskIds == {1, 2}

TaskInputs == {<<>>, <<PlaceA>>, <<PlaceD1, PlaceS>>, <<PlaceU, PlaceA, PlaceS>>}

TaskRadii == {5 * DistScale, 25000 * DistScale}

NewTask(fn, from, to, rad, input) ==
    [fn |-> fn, lat |-> from.lat, lon |-> from.lon, to |-> to, rad |-> rad,
     input |-> input, pc |-> "enter", result |-> NoCall]

TaskChoices ==
    {NewTask("findNearestStore", o, o, 0, s) : o \in Origins, s \in TaskInputs}
    \cup {NewTask("findNearbyRestaurants", o, o, r, s) :
              o \in Origins, r \in TaskRadii, s \in TaskInputs}
    \cup {NewTask("calculateDistance", o, t, 0, <<>>) : o \in Origins, t \in {delhi, south12}}

\* the declarations of a call, nothing assigned yet: input is stores or
\* restaurants, mapped is storesWithDistance or the array map returns, nearby
\* is the array filter returns, distance is calculateDistance's const distance
EmptyFrame == [input |-> <<>>, mapped |-> <<>>, nearby |-> <<>>, distance |-> 0]

\* one frame for all calls, as declarations at module level would be: not
\* what the source declares
SharedFrame(i) == 1

\* const and parameter declarations are made anew by every call: call i has
\* frame i
Frame(i) == i

\* a sort that is followed by the map again: not the source's order
NextPcLooping(fn, pc) ==
    IF pc = "enter" THEN (IF fn = "calculateDistance" THEN "compute" ELSE "map")
    ELSE IF pc = "map" THEN (IF fn = "findNearbyRestaurants" THEN "filter" ELSE "sort")
    ELSE IF pc = "filter" THEN "sort"
    ELSE IF pc = "sort" THEN "map"
    ELSE IF pc = "compute" THEN "return"
    ELSE "done"

\* the statement after statement pc of function fn
NextPc(fn, pc) ==
    IF pc = "enter" THEN (IF fn = "calculateDistance" THEN "compute" ELSE "map")
    ELSE IF pc = "map" THEN (IF fn = "findNearbyRestaurants" THEN "filter" ELSE "sort")
    ELSE IF pc = "filter" THEN "sort"
    ELSE IF pc = "sort" THEN "return"
    ELSE IF pc = "compute" THEN "return"
    ELSE "done"

Advance(i) == [tasks EXCEPT ![i].pc = NextPc(tasks[i].fn, tasks[i].pc)]

InitTasks ==
    /\ tasks \in [TaskIds -> TaskChoices]
    /\ frames = [n \in TaskIds |-> EmptyFrame]
    /\ logged = <<>>
    /\ origin = mumbai
    /\ target = mumbai
    /\ candidates = <<>>
    /\ radius = 0
    /\ op = "none"
    /\ ret = NoCall
    /\ NoStorage
    /\ NoPage

\* the call begins: its parameters and its array literal are its own
\* (findNearbyRestaurants writes its first line)
Enter(i) ==
    /\ tasks[i].pc = "enter"
    /\ frames' = [frames EXCEPT ![Frame(i)] = [EmptyFrame EXCEPT !.input = tasks[i].input]]
    /\ logged' = IF tasks[i].fn = "findNearbyRestaurants"
                 THEN Append(logged, <<"Finding restaurants within", tasks[i].rad>>)
                 ELSE logged
    /\ tasks' = Advance(i)
    /\ UNCHANGED <<origin, target, candidates, radius, op, ret, storageVars, pageVars, watchVars>>

\* calculateDistance on the arguments these calls pass it, evaluated once
TaskTargets == {Point(p.lat, p.lon) : p \in Places} \cup {delhi, south12}

DistanceTable ==
    [from \in Origins, to \in TaskTargets |->
        calculateDistance(from.lat, from.lon, to.lat, to.lon)]

\* one turn of map's loop: the callback's object for the next element of from
\* is appended to the new array
MapElement(arrays, from, to, userLat, userLon) ==
    [arrays EXCEPT ![to] =
        Append(@, WithDistance(arrays[from][Len(@) + 1],
                               DistanceTable[Point(userLat, userLon),
                                             Point(arrays[from][Len(@) + 1].lat,
                                                   arrays[from][Len(@) + 1].lon)]))]

\* map: one element, or past the last element on to the next statement
Map(i) ==
    /\ tasks[i].pc = "map"
    /\ IF Len(frames[Frame(i)].mapped) < Len(frames[Frame(i)].input)
       THEN /\ frames' = [frames EXCEPT ![Frame(i)] =
                             MapElement(@, "input", "mapped", tasks[i].lat, tasks[i].lon)]
            /\ tasks' = tasks
       ELSE /\ frames' = frames
            /\ tasks' = Advance(i)
    /\ UNCHANGED <<origin, target, candidates, radius, op, ret, logged, storageVars, pageVars, watchVars>>

Filter(i) ==
    /\ tasks[i].pc = "filter"
    /\ frames' = [frames EXCEPT ![Frame(i)] = ArrayFilter(@, "mapped", "nearby", tasks[i].rad)]
    /\ tasks' = Advance(i)
    /\ UNCHANGED <<origin, target, candidates, radius, op, ret, logged, storageVars, pageVars, watchVars>>

\* findNearestStore sorts storesWithDistance by distance, findNearbyRestaurants
\* the filtered array by rating
Sort(i) ==
    /\ tasks[i].pc = "sort"
    /\ frames' = [frames EXCEPT ![Frame(i)] =
                     IF tasks[i].fn = "findNearestStore"
                     THEN ArraySort(@, "mapped", "distance")
                     ELSE ArraySort(@, "nearby", "rating")]
    /\ tasks' = Advance(i)
    /\ UNCHANGED <<origin, target, candidates, radius, op, ret, logged, storageVars, pageVars, watchVars>>

\* the body of calculateDistance up to const distance
Compute(i) ==
    /\ tasks[i].pc = "compute"
    /\ frames' = [frames EXCEPT ![Frame(i)].distance =
                     DistanceTable[Point(tasks[i].lat, tasks[i].lon), tasks[i].to]]
    /\ tasks' = Advance(i)
    /\ UNCHANGED <<origin, target, candidates, radius, op, ret, logged, storageVars, pageVars, watchVars>>

\* what the call at its last statements delivers from its frame
Outcome(fn, frame) ==
    IF fn = "findNearestStore"
    THEN (IF Len(frame.mapped) = 0 THEN Thrown("TypeError") ELSE Returned(frame.mapped[1]))
    ELSE IF fn = "findNearbyRestaurants" THEN Fulfilled(frame.nearby)
    ELSE Returned(frame.distance)

\* the lines written from sort to return
LastLines(fn, rad, outcome) ==
    IF fn = "findNearestStore" THEN NearestLog(outcome)
    ELSE IF fn = "findNearbyRestaurants" THEN Tail(NearbyLog(rad, outcome))
    ELSE <<>>

Return(i) ==
    /\ tasks[i].pc = "return"
    /\ tasks' = [tasks EXCEPT ![i].pc = NextPc(tasks[i].fn, "return"),
                              ![i].result = Outcome(tasks[i].fn, frames[Frame(i)])]
    /\ logged' = logged \o LastLines(tasks[i].fn, tasks[i].rad, tasks'[i].result)
    /\ UNCHANGED <<origin, target, candidates, radius, op, ret, frames, storageVars, pageVars, watchVars>>

NextTasks ==
    \E i \in TaskIds :
        Enter(i) \/ Map(i) \/ Filter(i) \/ Sort(i) \/ Compute(i) \/ Return(i)

SpecTasks == InitTasks /\ [][NextTasks]_vars

\* the calls from mumbai, within the widest radius, to delhi
RunChoices ==
    {t \in TaskChoices :
        t.lat = mumbai.lat /\ t.rad # 5 * DistScale /\ t.to # south12}

InitRuns ==
    /\ tasks \in [TaskIds -> RunChoices]
    /\ frames = [n \in TaskIds |-> EmptyFrame]
    /\ logged = <<>>
    /\ origin = mumbai
    /\ target = mumbai
    /\ candidates = <<>>
    /\ radius = 0
    /\ op = "none"
    /\ ret = NoCall
    /\ NoStorage
    /\ NoPage

\* a call whose next statement is enabled takes it: the engine runs every
\* call it has begun
SpecRunsFair == InitRuns /\ [][NextTasks]_vars /\ WF_vars(NextTasks)

\* what call t returns when it runs alone
Alone(t) ==
    IF t.fn = "findNearestStore" THEN findNearestStore(t.lat, t.lon, t.input)
    ELSE IF t.fn = "findNearbyRestaurants"
    THEN findNearbyRestaurants(t.lat, t.lon, t.rad, t.input)
    ELSE Returned(calculateDistance(t.lat, t.lon, t.to.lat, t.to.lon))

\* C18: the operations are safe to invoke concurrently without
\* synchronization: in any interleaving of concurrent nearest, within and
\* distance invocations, each invocation returns the result it returns when
\* run alone.
ConcurrentAsAlone ==
    \A i \in TaskIds : tasks[i].pc = "done" => tasks[i].result = Alone(tasks[i])

\* call 2, a within, wrote its first line before call 1, a nearest on other
\* candidates, wrote anything, and is still in its map while call 1 has
\* returned its nearest candidate
ConcurrentAsAloneWitness ==
    /\ tasks[1].fn = "findNearestStore"
    /\ tasks[1].input = <<PlaceD1, PlaceS>>
    /\ tasks[1].pc = "done"
    /\ tasks[1].result.kind = "return"
    /\ tasks[2].fn = "findNearbyRestaurants"
    /\ tasks[2].input = <<PlaceU, PlaceA, PlaceS>>
    /\ tasks[2].pc = "map"
    /\ Len(frames[2].mapped) = 1
    /\ Len(logged) = 3
    /\ logged[1][1] = "Finding restaurants within"

\* C19: every operation terminates for every finite candidate sequence: each
\* call of distance, nearest or within eventually returns.
EveryCallReturns == <>(\A i \in TaskIds : tasks[i].pc = "done")

\* a nearest and a within on three candidates have both run to their end
EveryCallReturnsWitness ==
    /\ tasks[1].fn = "findNearestStore"
    /\ tasks[2].fn = "findNearbyRestaurants"
    /\ \A i \in TaskIds :
          /\ tasks[i].input = <<PlaceU, PlaceA, PlaceS>>
          /\ tasks[i].pc = "done"
          /\ tasks[i].result.kind \in {"return", "fulfilled"}
          /\ Len(frames[i].mapped) = 3

----------------------------------------------------------------------------
(* src/03-local-storage.js: addRecentSearch.  localStorage maps a key to   *)
(* the string stored under it; a JSON text is the sequence of its tokens.  *)
(* history is not the program's: it records the list first stored and, in  *)
(* front of it, every query added since, newest first.                     *)

Token(t, v) == [t |-> t, v |-> v]

\* JSON.stringify of an array of strings: [ "a" , "b" ]
JSONstringify(list) ==
    LET items[n \in 0..Len(list)] ==
            IF n = 0 THEN <<>>
            ELSE IF n = 1 THEN <<Token("string", list[1])>>
            ELSE Append(Append(items[n - 1], Token(",", "")), Token("string", list[n]))
    IN  <<Token("[", "")>> \o items[Len(list)] \o <<Token("]", "")>>

\* the text is [ ], or [ string (, string)* ]
IsArrayText(text) ==
    /\ Len(text) >= 2
    /\ text[1].t = "[" /\ text[Len(text)].t = "]"
    /\ (Len(text) = 2 \/ Len(text) % 2 = 1)
    /\ \A k \in 2..(Len(text) - 1) :
          text[k].t = IF k % 2 = 0 THEN "string" ELSE ","

\* JSON.parse of the text of an array of strings; any other text these calls
\* do not store
JSONparse(text) ==
    LET values[n \in 0..((Len(text) - 1) \div 2)] ==
            IF n = 0 THEN <<>> ELSE Append(values[n - 1], text[2 * n].v)
    IN  values[(Len(text) - 1) \div 2]

\* localStorage.getItem(key) || otherwise: null (no such key) and the empty
\* string are falsy
getItemOr(key, otherwise) ==
    IF key \in DOMAIN localStorage /\ localStorage[key] # <<>>
    THEN localStorage[key] ELSE otherwise

\* localStorage.setItem(key, value)
setItem(key, value) == [k \in DOMAIN localStorage \cup {key} |->
                           IF k = key THEN value ELSE localStorage[k]]

\* list.push(x): x at the end, not what the source calls
push(list, x) == Append(list, x)

\* list.unshift(x): x at the beginning
unshift(list, x) == <<x>> \o list

\* list.slice(0, end)
slice0(list, end) == SubSeq(list, 1, IF Len(list) < end THEN Len(list) ELSE end)

\* the value of searches when setItem is called
addRecentSearchList(query) ==
    slice0(unshift(JSONparse(getItemOr("recentSearches", JSONstringify(<<>>))), query), 5)

\* the queries of lines 171-173
Queries == {"JavaScript tutorials", "React hooks", "Node.js express"}

MaxHistory == 7

\* lists to begin with: none stored, the empty string, and lists of 0, 1, 5 and
\* 6 entries
StoredAtFirst ==
    {<<>>, [recentSearches |-> <<>>]}
    \cup {[recentSearches |-> JSONstringify(l)] :
             l \in {<<>>, <<"old 1">>,
                    <<"old 1", "old 2", "old 3", "old 4", "old 5">>,
                    <<"old 1", "old 2", "old 3", "old 4", "old 5", "old 6">>}}

InitSearches ==
    /\ localStorage \in StoredAtFirst
    /\ history = JSONparse(getItemOr("recentSearches", JSONstringify(<<>>)))
    /\ call = <<>>
    /\ origin = mumbai
    /\ target = mumbai
    /\ candidates = <<>>
    /\ radius = 0
    /\ op = "none"
    /\ ret = NoCall
    /\ logged = <<>>
    /\ tasks = <<>>
    /\ frames = <<>>
    /\ NoPage

\* function addRecentSearch(query); it returns nothing (undefined)
addRecentSearch ==
    \E query \in Queries :
        /\ Len(history) < MaxHistory
        /\ localStorage' = setItem("recentSearches", JSONstringify(addRecentSearchList(query)))
        /\ logged' = << <<"Recent searches:", addRecentSearchList(query)>> >>
        /\ history' = <<query>> \o history
        /\ op' = "addRecentSearch"
        /\ ret' = Returned(0)
        /\ UNCHANGED <<origin, target, candidates, radius, tasks, frames, call>>
        /\ UNCHANGED <<pageVars, watchVars>>

NextSearches == addRecentSearch

SpecSearches == InitSearches /\ [][NextSearches]_vars

\* the list stored under 'recentSearches'
StoredSearches == JSONparse(localStorage["recentSearches"])

\* C20: after any sequence of addRecentSearch calls starting from any stored
\* list, the stored list has at most 5 entries, its first entry is the query
\* added last, and its entries are the most recent queries, newest first
\* (entries beyond the fifth are dropped).
RecentSearchesKept ==
    op = "addRecentSearch" =>
        /\ IsArrayText(localStorage["recentSearches"])
        /\ Len(StoredSearches) <= 5
        /\ StoredSearches[1] = history[1]
        /\ StoredSearches = SubSeq(history, 1, IF Len(history) < 5 THEN Len(history) ELSE 5)

\* six entries were stored at first and a query was added: the list holds the
\* query and the first four of the six
RecentSearchesKeptWitness ==
    /\ op = "addRecentSearch"
    /\ Len(history) = 7
    /\ history[2] = "old 1"
    /\ StoredSearches = <<history[1], "old 1", "old 2", "old 3", "old 4">>

----------------------------------------------------------------------------
(* src/05-intersection-observer.js.  document holds the elements of the    *)
(* page, observing[o] the targets observer o observes, entries the         *)
(* argument of the callback that ran last, timers the number of timeouts   *)
(* set and not yet run.  A handler (a callback, a timeout) runs to its end *)
(* before the next begins.                                                 *)

\* no call of the geographic helpers
NoSearch ==
    /\ origin = mumbai
    /\ target = mumbai
    /\ candidates = <<>>
    /\ radius = 0
    /\ ret = NoCall
    /\ tasks = <<>>
    /\ frames = <<>>

searchVars == <<origin, target, candidates, radius, ret, tasks, frames>>

\* an IntersectionObserverEntry
Entry(el, isIntersecting) == [target |-> el, isIntersecting |-> isIntersecting]

MaxEntries == 2

\* the arguments a callback of an observer may be given: entries of targets
\* it observes
Batches(targets) ==
    UNION {[1..n -> {Entry(el, b) : el \in targets, b \in BOOLEAN}] : n \in 1..MaxEntries}

\* the targets of the intersecting entries
Intersecting(es) == {es[n].target : n \in {k \in 1..Len(es) : es[k].isIntersecting}}

\* ---- 4. infinite scroll ----

Sentinel == [className |-> "infinite-scroll-sentinel", textContent |-> <<0, 0>>]

\* item.className = 'list-item'; item.textContent = `Page ${pageNum}, Item ${i}`
ListItem(pageNum, i) == [className |-> "list-item", textContent |-> <<pageNum, i>>]

MaxPage == 4

\* the page with or without the sentinel and with or without the list
ScrollDocuments ==
    {[sentinel |-> s, infiniteList |-> [exists |-> c, children |-> <<>>], elements |-> <<>>] :
        s, c \in BOOLEAN}

\* if (sentinel) infiniteObserver.observe(sentinel)
InitScroll ==
    /\ document \in ScrollDocuments
    /\ observing = [o \in {"infiniteObserver"} |->
                       IF document.sentinel THEN {Sentinel} ELSE {}]
    /\ entries = <<>>
    /\ unloaded = FALSE
    /\ intersected = {}
    /\ NoScroll
    /\ NoTracking
    /\ NoLazy
    /\ NoWatch
    /\ op = "setupInfiniteScroll"
    /\ logged = <<>>
    /\ NoSearch
    /\ NoStorage

\* the condition without !loading, not what the source tests
StartsLoadAlways(entry, isLoading) == entry.isIntersecting

\* if (entry.isIntersecting && !loading)
StartsLoad(entry, isLoading) == entry.isIntersecting /\ ~isLoading

\* entries.forEach(entry => ...): loading, the timeouts set and the lines
\* logged after the first n entries
InfiniteForEach(es) ==
    LET after[n \in 0..Len(es)] ==
            IF n = 0 THEN [loading |-> loading, timers |-> timers, logged |-> <<>>]
            ELSE IF StartsLoad(es[n], after[n - 1].loading)
                 THEN [loading |-> TRUE,
                       timers |-> after[n - 1].timers + 1,
                       logged |-> Append(after[n - 1].logged,
                                         <<"Loading more content... Page:", page>>)]
                 ELSE after[n - 1]
    IN  after[Len(es)]

\* the callback of infiniteObserver
InfiniteCallback ==
    \E es \in Batches(observing["infiniteObserver"]) :
        /\ page <= MaxPage
        /\ entries' = es
        /\ loading' = InfiniteForEach(es).loading
        /\ timers' = InfiniteForEach(es).timers
        /\ logged' = InfiniteForEach(es).logged
        /\ op' = "infiniteObserver"
        /\ UNCHANGED <<document, observing, unloaded, intersected, page, loaded>>
        /\ UNCHANGED <<trackingVars, lazyVars, watchVars, searchVars, storageVars>>

\* for (let i = 1; i <= 10; i++) container?.appendChild(item)
AppendItems(container, pageNum) ==
    IF container.exists
    THEN [container EXCEPT !.children = @ \o [i \in 1..10 |-> ListItem(pageNum, i)]]
    ELSE container

\* container?.lastElementChild
lastElementChild(container) ==
    IF container.exists /\ Len(container.children) > 0
    THEN {container.children[Len(container.children)]}
    ELSE {}

\* the function of setTimeout: loadMoreItems(page); page++; loading = false
LoadTimeout ==
    /\ timers > 0
    /\ timers' = timers - 1
    /\ document' = [document EXCEPT !.infiniteList = AppendItems(@, page)]
    /\ observing' = [observing EXCEPT !["infiniteObserver"] =
                        @ \cup lastElementChild(document'.infiniteList)]
    /\ loaded' = Append(loaded, page)
    /\ page' = page + 1
    /\ loading' = FALSE
    /\ logged' = << <<"Content loaded!">> >>
    /\ op' = "setTimeout"
    /\ UNCHANGED <<entries, unloaded, intersected>>
    /\ UNCHANGED <<trackingVars, lazyVars, watchVars, searchVars, storageVars>>

NextScroll == InfiniteCallback \/ LoadTimeout

SpecScroll == InitScroll /\ [][NextScroll]_vars

\* C21: however intersection callbacks and timeouts interleave, at most one
\* load is in flight (an intersection arriving while loading is true starts
\* none), the loads made are of pages 1, 2, ... in turn, each once, page being
\* one more than the last page loaded, and loading is false after a load
\* completes.
OneLoadInFlight ==
    /\ timers <= 1
    /\ loading <=> (timers = 1)
    /\ loaded = [n \in 1..(page - 1) |-> n]
    /\ op = "setTimeout" => ~loading

\* two loads were made and a third is in flight when an intersecting entry
\* arrives and starts nothing
OneLoadInFlightWitness ==
    /\ op = "infiniteObserver"
    /\ loaded = <<1, 2>>
    /\ page = 3
    /\ timers = 1
    /\ \E n \in 1..Len(entries) : entries[n].isIntersecting
    /\ logged = <<>>

\* ---- 7. analytics tracking ----

\* an element of the page: its id, the selectors it matches, its class list,
\* its src and its data-src ("" where it has none)
Element(id, selectors, src, dataSrc) ==
    [id |-> id, matches |-> selectors, classList |-> {}, src |-> src, dataSrc |-> dataSrc]

\* document.querySelectorAll(selector)
querySelectorAll(selector) ==
    {el \in DOMAIN document.elements : selector \in document.elements[el].matches}

NoScrollList == [exists |-> FALSE, children |-> <<>>]

\* pages with elements to track: two with ids of their own, a second element
\* with the id of the first, and one without an id
TrackedElements ==
    [e \in {"hero", "pricing", "hero again", "unnamed"} |->
        Element(CASE e = "hero" -> "hero"
                  [] e = "pricing" -> "pricing"
                  [] e = "hero again" -> "hero"
                  [] OTHER -> "",
                {"[data-track]"}, "", "")]

TrackingDocuments ==
    {[sentinel |-> FALSE, infiniteList |-> NoScrollList,
      elements |-> [e \in names |-> TrackedElements[e]]] :
        names \in {{"hero", "pricing"}, DOMAIN TrackedElements}}

\* document.querySelectorAll('[data-track]').forEach(element =>
\*     trackingObserver.observe(element))
InitTracking ==
    /\ document \in TrackingDocuments
    /\ observing = [o \in {"trackingObserver"} |-> querySelectorAll("[data-track]")]
    /\ entries = <<>>
    /\ unloaded = FALSE
    /\ intersected = {}
    /\ NoTracking
    /\ NoScroll
    /\ NoLazy
    /\ NoWatch
    /\ op = "setupViewTracking"
    /\ logged = <<>>
    /\ NoSearch
    /\ NoStorage

\* a set that has nothing, not what the source calls
hasNothing(set, x) == FALSE

\* tracked.has(elementId)
has(set, x) == x \in set

\* function trackView(elementId): the line it logs
trackView(elementId) == <<"Sending to analytics:", "element_view", elementId>>

\* entries.forEach(entry => ...): tracked, the calls of trackView and the
\* lines logged after the first n entries
TrackingForEach(es) ==
    LET after[n \in 0..Len(es)] ==
            IF n = 0 THEN [tracked |-> tracked, views |-> views, logged |-> <<>>]
            ELSE LET elementId == document.elements[es[n].target].id
                     before == after[n - 1]
                 IN  IF es[n].isIntersecting /\ ~has(before.tracked, elementId)
                     THEN [tracked |-> before.tracked \cup {elementId},
                           views |-> Append(before.views, elementId),
                           logged |-> before.logged \o
                                      << <<"Tracked view:", elementId>>,
                                         trackView(elementId) >>]
                     ELSE before
    IN  after[Len(es)]

\* the callback of trackingObserver
TrackingCallback ==
    \E es \in Batches(observing["trackingObserver"]) :
        /\ entries' = es
        /\ tracked' = TrackingForEach(es).tracked
        /\ views' = TrackingForEach(es).views
        /\ logged' = TrackingForEach(es).logged
        /\ intersected' = intersected \cup
               {document.elements[el].id : el \in Intersecting(es)}
        /\ op' = "trackingObserver"
        /\ UNCHANGED <<document, observing, unloaded>>
        /\ UNCHANGED <<scrollVars, lazyVars, watchVars, searchVars, storageVars>>

NextTracking == TrackingCallback

SpecTracking == InitTracking /\ [][NextTracking]_vars

\* C22: over any sequence of intersection events, trackView is called at most
\* once for an element id, and it has been called for every id an
\* intersecting entry has arrived for (so the call is made at the first one).
TrackedOnce ==
    /\ \A i, j \in 1..Len(views) : views[i] = views[j] => i = j
    /\ {views[i] : i \in 1..Len(views)} = intersected

\* an element whose view was tracked before intersects again and nothing is
\* tracked
TrackedOnceWitness ==
    /\ op = "trackingObserver"
    /\ Len(views) >= 2
    /\ \E n \in 1..Len(entries) :
          /\ entries[n].isIntersecting
          /\ document.elements[entries[n].target].id = views[1]
    /\ logged = <<>>

\* ---- 2. lazy loading images ----

\* <img class="lazy-image" src="placeholder.jpg" data-src="actual-image.jpg">,
\* a second such image, and one without data-src
LazyImages ==
    [e \in {"photo", "banner", "plain"} |->
        Element(e, {".lazy-image"}, "placeholder.jpg",
                IF e = "plain" THEN "" ELSE "actual-image.jpg")]

LazyDocuments ==
    {[sentinel |-> FALSE, infiniteList |-> NoScrollList,
      elements |-> [e \in names |-> LazyImages[e]]] :
        names \in {{"photo", "plain"}, DOMAIN LazyImages}}

\* document.querySelectorAll('.lazy-image').forEach(img =>
\*     imageObserver.observe(img))
InitLazy ==
    /\ document \in LazyDocuments
    /\ observing = [o \in {"imageObserver"} |-> querySelectorAll(".lazy-image")]
    /\ entries = <<>>
    /\ unloaded = FALSE
    /\ intersected = {}
    /\ NoLazy
    /\ NoScroll
    /\ NoTracking
    /\ NoWatch
    /\ op = "setupLazyLoading"
    /\ logged = <<>>
    /\ NoSearch
    /\ NoStorage

\* img.src = actualSrc; img.classList.add('loaded')
LoadImage(img, actualSrc) ==
    [img EXCEPT !.src = actualSrc, !.classList = @ \cup {"loaded"}]

\* entries.forEach(entry => ...): the elements, the targets observed, the
\* sources assigned and the lines logged after the first n entries
LazyForEach(es) ==
    LET after[n \in 0..Len(es)] ==
            IF n = 0
            THEN [elements |-> document.elements,
                  observed |-> observing["imageObserver"],
                  fetched |-> fetched,
                  logged |-> <<>>]
            ELSE LET before == after[n - 1]
                     img == es[n].target
                     actualSrc == before.elements[img].dataSrc
                 IN  IF es[n].isIntersecting /\ actualSrc # ""
                     THEN [elements |-> [before.elements EXCEPT
                                            ![img] = LoadImage(@, actualSrc)],
                           observed |-> before.observed \ {img},
                           fetched |-> Append(before.fetched, img),
                           logged |-> Append(before.logged,
                                             <<"Loading image:", actualSrc>>)]
                     ELSE before
    IN  after[Len(es)]

\* the callback of imageObserver.  The entries queued since the last callback
\* are delivered together, those of a target unobserved while they are
\* handled included.
LazyCallback ==
    \E es \in Batches(observing["imageObserver"]) :
        /\ entries' = es
        /\ document' = [document EXCEPT !.elements = LazyForEach(es).elements]
        /\ observing' = [observing EXCEPT !["imageObserver"] = LazyForEach(es).observed]
        /\ fetched' = LazyForEach(es).fetched
        /\ logged' = LazyForEach(es).logged
        /\ intersected' = intersected \cup Intersecting(es)
        /\ op' = "imageObserver"
        /\ UNCHANGED unloaded
        /\ UNCHANGED <<scrollVars, trackingVars, watchVars, searchVars, storageVars>>

NextLazy == LazyCallback

SpecLazy == InitLazy /\ [][NextLazy]_vars

\* the number of times img.src was assigned for the image
TimesLoaded(img) == Cardinality({n \in 1..Len(fetched) : fetched[n] = img})

PageElements ==
    [e \in {"box", "photo", "hero"} |->
        CASE e = "box" -> Element("box", {".observe-me"}, "", "")
          [] e = "photo" -> LazyImages["photo"]
          [] OTHER -> TrackedElements["hero"]]

InitPage ==
    /\ document = [sentinel |-> TRUE, infiniteList |-> NoScrollList,
                   elements |-> PageElements]
    /\ observing = [o \in {"basicObserver", "imageObserver",
                           "infiniteObserver", "trackingObserver"} |->
                       CASE o = "basicObserver" -> querySelectorAll(".observe-me")
                         [] o = "imageObserver" -> querySelectorAll(".lazy-image")
                         [] o = "infiniteObserver" -> {Sentinel}
                         [] OTHER -> querySelectorAll("[data-track]")]
    /\ entries = <<>>
    /\ unloaded = FALSE
    /\ intersected = {}
    /\ NoScroll
    /\ NoTracking
    /\ NoLazy
    /\ NoWatch
    /\ op = "cleanup"
    /\ logged = <<>>
    /\ NoSearch
    /\ NoStorage

\* entries.forEach(entry => ...) of basicObserver: the elements and the lines
\* logged after the first n entries
BasicForEach(es) ==
    LET after[n \in 0..Len(es)] ==
            IF n = 0 THEN [elements |-> document.elements, logged |-> <<>>]
            ELSE IF es[n].isIntersecting
                 THEN [elements |-> [after[n - 1].elements EXCEPT
                                        ![es[n].target].classList = @ \cup {"visible"}],
                       logged |-> Append(after[n - 1].logged,
                                         <<"Element is visible:", es[n].target>>)]
                 ELSE [elements |-> after[n - 1].elements,
                       logged |-> Append(after[n - 1].logged,
                                         <<"Element is hidden:", es[n].target>>)]
    IN  after[Len(es)]

\* the callback of basicObserver
BasicCallback ==
    \E es \in Batches(observing["basicObserver"]) :
        /\ entries' = es
        /\ document' = [document EXCEPT !.elements = BasicForEach(es).elements]
        /\ logged' = BasicForEach(es).logged
        /\ intersected' = intersected \cup Intersecting(es)
        /\ op' = "basicObserver"
        /\ UNCHANGED <<observing, unloaded>>
        /\ UNCHANGED <<scrollVars, trackingVars, lazyVars, watchVars, searchVars, storageVars>>

\* observer.disconnect(): the observer observes nothing
disconnect(o) == [observing EXCEPT ![o] = {}]

\* the listener of 'beforeunload': basicObserver.disconnect()
Beforeunload ==
    /\ unloaded' = TRUE
    /\ observing' = disconnect("basicObserver")
    /\ logged' = << <<"Observers cleaned up!">> >>
    /\ op' = "beforeunload"
    /\ UNCHANGED <<document, entries, intersected>>
    /\ UNCHANGED <<scrollVars, trackingVars, lazyVars, watchVars, searchVars, storageVars>>

NextPage ==
    \/ BasicCallback
    \/ LazyCallback
    \/ InfiniteCallback
    \/ LoadTimeout
    \/ TrackingCallback
    \/ Beforeunload

SpecPage == InitPage /\ [][NextPage]_vars

\* C23: once 'beforeunload' has fired, every observer the script created is
\* disconnected (it observes nothing) and no callback of an observer runs.
AllDisconnectedAtUnload ==
    unloaded =>
        /\ \A o \in DOMAIN observing : observing[o] = {}
        /\ op = "beforeunload"

----------------------------------------------------------------------------
(* src/06-navigator-geolocation.js: startLocationTracking.  geolocation is *)
(* navigator.geolocation: whether it is there, the ids of the watches      *)
(* under way and the id watchPosition gives next.  timeouts holds the      *)
(* watchId of every timeout set and not yet run, cleared the ids           *)
(* clearWatch was called with.                                             *)

MaxWatches == 4

\* positions and errors the watch may report
Positions == {mumbai, delhi}

PositionErrors == {"User denied Geolocation", "Timeout expired"}

InitWatch ==
    /\ geolocation \in {[supported |-> b, watching |-> {}, nextId |-> 1] : b \in BOOLEAN}
    /\ timeouts = {}
    /\ cleared = <<>>
    /\ op = "none"
    /\ logged = <<>>
    /\ document = <<>>
    /\ observing = <<>>
    /\ entries = <<>>
    /\ unloaded = FALSE
    /\ intersected = {}
    /\ NoScroll
    /\ NoTracking
    /\ NoLazy
    /\ NoSearch
    /\ NoStorage

\* navigator.geolocation.watchPosition(...): a watch with an id of its own
watchPosition(geo) ==
    [geo EXCEPT !.watching = @ \cup {geo.nextId}, !.nextId = @ + 1]

\* a clearWatch that clears nothing, not what the source calls
clearNothing(geo, watchId) == geo

\* navigator.geolocation.clearWatch(watchId)
clearWatch(geo, watchId) == [geo EXCEPT !.watching = @ \ {watchId}]

\* function startLocationTracking(); ret holds the watchId it returns, 0 for
\* undefined
startLocationTracking ==
    /\ geolocation.nextId <= MaxWatches
    /\ op' = "startLocationTracking"
    /\ IF ~geolocation.supported
       THEN /\ logged' = << <<"Geolocation not supported">> >>
            /\ ret' = Returned(0)
            /\ UNCHANGED <<geolocation, timeouts>>
       ELSE /\ logged' = << <<"Starting location tracking...">> >>
            /\ geolocation' = watchPosition(geolocation)
            /\ timeouts' = timeouts \cup {geolocation.nextId}
            /\ ret' = Returned(geolocation.nextId)
    /\ UNCHANGED <<cleared, origin, target, candidates, radius, tasks, frames>>
    /\ UNCHANGED <<pageVars, storageVars>>

\* (position) => console.log(`Updated location: ${latitude}, ${longitude}`)
PositionCallback ==
    \E watchId \in geolocation.watching, position \in Positions :
        /\ logged' = << <<"Updated location:", position.lat, position.lon>> >>
        /\ op' = "position"
        /\ UNCHANGED <<watchVars, searchVars, pageVars, storageVars>>

\* (error) => console.error('Tracking error:', error.message)
ErrorCallback ==
    \E watchId \in geolocation.watching, message \in PositionErrors :
        /\ logged' = << <<"Tracking error:", message>> >>
        /\ op' = "error"
        /\ UNCHANGED <<watchVars, searchVars, pageVars, storageVars>>

\* the function of setTimeout, 30 seconds after the call
StopTimeout ==
    \E watchId \in timeouts :
        /\ geolocation' = clearWatch(geolocation, watchId)
        /\ cleared' = Append(cleared, watchId)
        /\ timeouts' = timeouts \ {watchId}
        /\ logged' = << <<"Stopped location tracking">> >>
        /\ op' = "setTimeout"
        /\ UNCHANGED <<searchVars, pageVars, storageVars>>

NextWatch ==
    \/ startLocationTracking
    \/ PositionCallback
    \/ ErrorCallback
    \/ StopTimeout

SpecWatch == InitWatch /\ [][NextWatch]_vars

\* a timeout that is set runs
SpecWatchFair == SpecWatch /\ WF_vars(StopTimeout)

\* the number of calls of clearWatch with the id
TimesCleared(watchId) == Cardinality({n \in 1..Len(cleared) : cleared[n] = watchId})

\* C25: with geolocation supported, every watch started is in the end
\* cleared, by one call of clearWatch with the id watchPosition returned, and
\* clearWatch is called at most once for an id and only for the id of a watch
\* that was started; without geolocation no watch and no timeout is started.
WatchesStopped ==
    /\ [](\A watchId \in 1..MaxWatches :
              /\ TimesCleared(watchId) <= 1
              /\ TimesCleared(watchId) = 1 => watchId < geolocation.nextId)
    /\ [](~geolocation.supported =>
              geolocation.watching = {} /\ timeouts = {} /\ cleared = <<>>)
    /\ \A watchId \in 1..MaxWatches :
          (watchId \in geolocation.watching)
              ~> (watchId \notin geolocation.watching /\ TimesCleared(watchId) = 1)

\* two watches were started and the first to be started is cleared while the
\* second is still under way
WatchesStoppedWitness ==
    /\ op = "setTimeout"
    /\ cleared = <<1>>
    /\ geolocation.watching = {2}
    /\ timeouts = {2}

----------------------------------------------------------------------------
(* src/03-local-storage.js: getFromStorage, setToStorage.  A value of the  *)
(* program is a record with its type; a text is the sequence of its        *)
(* tokens, as for addRecentSearch.  Arrays and objects hold values that    *)
(* are not arrays or objects themselves.                                   *)

Undefined == [type |-> "undefined"]

Null == [type |-> "null"]

Bool(b) == [type |-> "boolean", b |-> b]

Num(n) == [type |-> "number", n |-> n, nan |-> FALSE]

NotANumber == [type |-> "number", n |-> 0, nan |-> TRUE]

BigInt(n) == [type |-> "bigint", n |-> n]

Str(str) == [type |-> "string", s |-> str]

Arr(items) == [type |-> "array", items |-> items]

\* fields: the pairs <<key, value>> in the order of the object's keys
Obj(fields) == [type |-> "object", fields |-> fields]

\* the numbers the model writes, in digits
Numerals == <<"0", "1", "2">>

\* Number.prototype.toString, of 0, 1 and 2
NumberText(n) == Numerals[n + 1]

\* the number a numeral of a JSON text stands for
NumberOf(digits) == (CHOOSE k \in 1..Len(Numerals) : Numerals[k] = digits) - 1

\* JSON.stringify of a value inside an array: undefined and NaN become null
ElementText(v) ==
    CASE v.type = "null" -> <<Token("null", "")>>
      [] v.type = "undefined" -> <<Token("null", "")>>
      [] v.type = "boolean" -> <<Token(IF v.b THEN "true" ELSE "false", "")>>
      [] v.type = "number" -> IF v.nan THEN <<Token("null", "")>>
                                       ELSE <<Token("number", NumberText(v.n))>>
      [] OTHER -> <<Token("string", v.s)>>

\* the texts of a sequence, with commas between them
Joined(texts) ==
    LET upTo[n \in 0..Len(texts)] ==
            IF n = 0 THEN <<>>
            ELSE IF n = 1 THEN texts[1]
            ELSE upTo[n - 1] \o <<Token(",", "")>> \o texts[n]
    IN  upTo[Len(texts)]

\* a field of value undefined is left out of the text of an object
IsWritten(field) == field[2].type # "undefined"

FieldText(field) == <<Token("string", field[1]), Token(":", "")>> \o ElementText(field[2])

\* JSON.stringify throws a TypeError for a BigInt
StringifyThrows(v) ==
    \/ v.type = "bigint"
    \/ v.type = "array" /\ \E n \in 1..Len(v.items) : v.items[n].type = "bigint"
    \/ v.type = "object" /\ \E n \in 1..Len(v.fields) : v.fields[n][2].type = "bigint"

\* JSON.stringify(value) where it does not throw: undefined for undefined, a
\* text otherwise
stringify(v) ==
    CASE v.type = "undefined" -> [defined |-> FALSE, text |-> <<>>]
      [] v.type = "array" ->
            [defined |-> TRUE,
             text |-> <<Token("[", "")>>
                      \o Joined([n \in 1..Len(v.items) |-> ElementText(v.items[n])])
                      \o <<Token("]", "")>>]
      [] v.type = "object" ->
            [defined |-> TRUE,
             text |-> LET written == SelectSeq(v.fields, IsWritten)
                      IN  <<Token("{", "")>>
                          \o Joined([n \in 1..Len(written) |-> FieldText(written[n])])
                          \o <<Token("}", "")>>]
      [] OTHER -> [defined |-> TRUE, text |-> ElementText(v)]

\* String(x) of what JSON.stringify returned, as setItem stores it
StringOf(stringified) ==
    IF stringified.defined THEN stringified.text ELSE <<Token("word", "undefined")>>

IsScalarToken(token) == token.t \in {"null", "true", "false", "number", "string"}

ScalarValue(token) ==
    CASE token.t = "null" -> Null
      [] token.t = "true" -> Bool(TRUE)
      [] token.t = "false" -> Bool(FALSE)
      [] token.t = "number" -> Num(NumberOf(token.v))
      [] OTHER -> Str(token.v)

\* [ ], or [ scalar (, scalar)* ]
IsArrayOfScalars(text) ==
    /\ Len(text) >= 2
    /\ text[1].t = "[" /\ text[Len(text)].t = "]"
    /\ (Len(text) = 2 \/ Len(text) % 2 = 1)
    /\ \A k \in 2..(Len(text) - 1) :
          IF k % 2 = 0 THEN IsScalarToken(text[k]) ELSE text[k].t = ","

\* { }, or { string : scalar (, string : scalar)* }
IsObjectOfScalars(text) ==
    /\ Len(text) >= 2
    /\ text[1].t = "{" /\ text[Len(text)].t = "}"
    /\ (Len(text) = 2 \/ Len(text) % 4 = 1)
    /\ \A k \in 2..(Len(text) - 1) :
          CASE k % 4 = 2 -> text[k].t = "string"
            [] k % 4 = 3 -> text[k].t = ":"
            [] k % 4 = 0 -> IsScalarToken(text[k])
            [] OTHER -> text[k].t = ","

\* JSON.parse(text): the value, or a SyntaxError
parse(text) ==
    IF Len(text) = 1 /\ IsScalarToken(text[1])
    THEN [ok |-> TRUE, value |-> ScalarValue(text[1])]
    ELSE IF IsArrayOfScalars(text)
    THEN [ok |-> TRUE,
          value |-> Arr([n \in 1..((Len(text) - 1) \div 2) |-> ScalarValue(text[2 * n])])]
    ELSE IF IsObjectOfScalars(text)
    THEN [ok |-> TRUE,
          value |-> Obj([n \in 1..(Len(text) \div 4) |->
                            <<text[4 * n - 2].v, ScalarValue(text[4 * n])>>])]
    ELSE [ok |-> FALSE, value |-> Undefined]

\* the catch left out, not what the source does
ParseUncaught(text, defaultValue) ==
    IF parse(text).ok
    THEN [ret |-> Returned(parse(text).value), logged |-> <<>>]
    ELSE [ret |-> Thrown("SyntaxError"), logged |-> <<>>]

\* try { return JSON.parse(item) } catch (error) { console.error(...);
\* return defaultValue }
ParseCaught(text, defaultValue) ==
    IF parse(text).ok
    THEN [ret |-> Returned(parse(text).value), logged |-> <<>>]
    ELSE [ret |-> Returned(defaultValue),
          logged |-> << <<"Error reading from storage:", "SyntaxError">> >>]

\* function getFromStorage(key, defaultValue = null): what it returns and logs.
\* getItem gives null where there is no item; null and '' are falsy.
getFromStorage(key, defaultValue) ==
    IF key \in DOMAIN localStorage /\ localStorage[key] # <<>>
    THEN ParseCaught(localStorage[key], defaultValue)
    ELSE [ret |-> Returned(defaultValue), logged |-> <<>>]

\* function setToStorage(key, value): what it returns and logs and what is
\* stored after it; quotaExceeded: setItem throws a QuotaExceededError
setToStorage(key, value, quotaExceeded) ==
    IF StringifyThrows(value)
    THEN [ret |-> Returned(Bool(FALSE)), localStorage |-> localStorage,
          logged |-> << <<"Error writing to storage:", "TypeError">> >>]
    ELSE IF quotaExceeded
    THEN [ret |-> Returned(Bool(FALSE)), localStorage |-> localStorage,
          logged |-> << <<"Error writing to storage:", "QuotaExceededError">> >>]
    ELSE [ret |-> Returned(Bool(TRUE)),
          localStorage |-> setItem(key, StringOf(stringify(value))),
          logged |-> <<>>]

Keys == {"theme", "user"}

Defaults == {Null, Str("light")}

\* values every one of which JSON can write
JSONValues ==
    {Null, Bool(TRUE), Num(0), Str(""), Str("dark"),
     Arr(<<Str("a"), Num(1)>>), Obj(<< <<"theme", Str("dark")>> >>)}

\* values of the program
Values == JSONValues \cup {Undefined, NotANumber, BigInt(1)}

\* texts that are not JSON: an array left open, a bare word
InvalidTexts == {<<Token("[", "")>>, <<Token("word", "dark")>>}

StoredTexts == {<<>>, StringOf(stringify(Str("dark"))), StringOf(stringify(Num(0)))}
                   \cup InvalidTexts

InitStorage ==
    /\ localStorage \in {<<>>} \cup {[k \in {"theme"} |-> text] : text \in StoredTexts}
    /\ history = <<>>
    /\ call = [key |-> "", value |-> Undefined, defaultValue |-> Undefined,
               quotaExceeded |-> FALSE]
    /\ op = "none"
    /\ logged = <<>>
    /\ NoSearch
    /\ document = <<>>
    /\ observing = <<>>
    /\ entries = <<>>
    /\ unloaded = FALSE
    /\ intersected = {}
    /\ NoScroll
    /\ NoTracking
    /\ NoLazy
    /\ NoWatch

CallGet ==
    \E key \in Keys, defaultValue \in Defaults :
        /\ call' = [key |-> key, value |-> Undefined, defaultValue |-> defaultValue,
                    quotaExceeded |-> FALSE]
        /\ ret' = getFromStorage(key, defaultValue).ret
        /\ logged' = getFromStorage(key, defaultValue).logged
        /\ op' = "getFromStorage"
        /\ UNCHANGED <<localStorage, history>>
        /\ UNCHANGED <<origin, target, candidates, radius, tasks, frames, pageVars, watchVars>>

CallSet ==
    \E key \in Keys, value \in Values, quotaExceeded \in BOOLEAN :
        /\ call' = [key |-> key, value |-> value, defaultValue |-> Undefined,
                    quotaExceeded |-> quotaExceeded]
        /\ ret' = setToStorage(key, value, quotaExceeded).ret
        /\ localStorage' = setToStorage(key, value, quotaExceeded).localStorage
        /\ logged' = setToStorage(key, value, quotaExceeded).logged
        /\ op' = "setToStorage"
        /\ UNCHANGED history
        /\ UNCHANGED <<origin, target, candidates, radius, tasks, frames, pageVars, watchVars>>

NextStorage == CallGet \/ CallSet

SpecStorage == InitStorage /\ [][NextStorage]_vars

\* C26: getFromStorage never throws; it returns defaultValue when there is no
\* item of the key, when the stored string is empty and when it is not JSON,
\* it returns the value whose JSON text is stored otherwise, and it leaves
\* the storage as it was.
SafeGet ==
    /\ [](op = "getFromStorage" =>
            /\ ret.kind = "return"
            /\ (\/ call.key \notin DOMAIN localStorage
                \/ localStorage[call.key] \in {<<>>} \cup InvalidTexts
                \/ localStorage[call.key] = StringOf(stringify(Undefined)))
                   => ret = Returned(call.defaultValue)
            /\ \A v \in JSONValues :
                   (/\ call.key \in DOMAIN localStorage
                    /\ localStorage[call.key] = stringify(v).text)
                       => ret = Returned(v))
    /\ [][op' = "getFromStorage" => localStorage' = localStorage]_vars

\* a text that is not JSON is stored and the default is returned, the error
\* logged
SafeGetWitness ==
    /\ op = "getFromStorage"
    /\ call.key \in DOMAIN localStorage
    /\ localStorage[call.key] \in InvalidTexts
    /\ ret = Returned(Str("light"))
    /\ logged # <<>>

====
